---- MODULE Spec2Model ----
(***************************************************************************)
(* Model of bangalore_reddit_leads_bot.py: the poll loop that merges the   *)
(* Pushshift search and the per-subreddit RSS feeds, builds leads with     *)
(* process_item, consults the CSV ledger with already_seen, appends with   *)
(* save_lead and notifies with send_telegram.                              *)
(*                                                                         *)
(* A Python str is a sequence of one-character strings; the Python value   *)
(* None is the one-element sequence None below, which no text equals.      *)
(***************************************************************************)
EXTENDS Integers, Sequences, FiniteSets, Bags, TLC

\* ------------------------------------------------------------------ bounds
MaxCycles == 2
MaxBatch == 2
\* failures of the environment (a fetch, a ledger read, a ledger write, a send)
\* within one run
MaxFaults == 1

\* ------------------------------------------------------------ text helpers
None == <<"None_">>

Truthy(x) == x # None /\ x # <<>>

Or(x, y) == IF Truthy(x) THEN x ELSE y

Digits == {"0", "1", "2", "3", "4", "5", "6", "7", "8", "9"}

LowerLetters == <<"a", "b", "c", "d", "e", "f", "g", "h", "i", "j", "k", "l", "m",
                  "n", "o", "p", "q", "r", "s", "t", "u", "v", "w", "x", "y", "z">>

UpperLetters == <<"A", "B", "C", "D", "E", "F", "G", "H", "I", "J", "K", "L", "M",
                  "N", "O", "P", "Q", "R", "S", "T", "U", "V", "W", "X", "Y", "Z">>

Range(f) == {f[i] : i \in DOMAIN f}

\* \w of the re module
IsWordChar(c) == c \in Digits \cup Range(LowerLetters) \cup Range(UpperLetters) \cup {"_"}

\* \s of the re module
IsSpace(c) == c \in {" ", "\t", "\n", "\r"}

LowerChar(c) ==
    IF c \in Range(UpperLetters)
    THEN LowerLetters[CHOOSE i \in DOMAIN UpperLetters : UpperLetters[i] = c]
    ELSE c

\* str.lower
Lower(s) == [i \in DOMAIN s |-> LowerChar(s[i])]

\* s[:n]
Take(s, n) == SubSeq(s, 1, IF Len(s) < n THEN Len(s) ELSE n)

\* s[-n:]
Last(s, n) == SubSeq(s, IF Len(s) < n THEN 1 ELSE Len(s) - n + 1, Len(s))

MatchAt(s, w, i) == i + Len(w) - 1 <= Len(s) /\ SubSeq(s, i, i + Len(w) - 1) = w

\* w in s
Contains(s, w) == \E i \in 1..(Len(s) + 1) : MatchAt(s, w, i)

\* re.search(r"\b" + w + r"\b", s) for a word w made of word characters
HasWord(s, w) ==
    \E i \in 1..Len(s) :
        /\ MatchAt(s, w, i)
        /\ (i = 1 \/ ~IsWordChar(s[i - 1]))
        /\ (i + Len(w) - 1 = Len(s) \/ ~IsWordChar(s[i + Len(w)]))

RECURSIVE CollapseSpace(_)
\* re.sub(r"\s+", " ", s)
CollapseSpace(s) ==
    IF s = <<>> THEN <<>>
    ELSE IF IsSpace(Head(s))
         THEN IF Len(s) > 1 /\ IsSpace(s[2])
              THEN CollapseSpace(Tail(s))
              ELSE <<" ">> \o CollapseSpace(Tail(s))
         ELSE <<Head(s)>> \o CollapseSpace(Tail(s))

RECURSIVE LStrip(_)
LStrip(s) == IF s # <<>> /\ IsSpace(Head(s)) THEN LStrip(Tail(s)) ELSE s

RECURSIVE RStrip(_)
RStrip(s) ==
    IF s # <<>> /\ IsSpace(s[Len(s)]) THEN RStrip(SubSeq(s, 1, Len(s) - 1)) ELSE s

\* str.strip
Strip(s) == RStrip(LStrip(s))

RECURSIVE CollapsePairs(_)
\* re.sub(r"\s\s", " ", s)
CollapsePairs(s) ==
    IF s = <<>> THEN <<>>
    ELSE IF Len(s) > 1 /\ IsSpace(s[1]) /\ IsSpace(s[2])
         THEN <<" ">> \o CollapsePairs(SubSeq(s, 3, Len(s)))
         ELSE <<Head(s)>> \o CollapsePairs(Tail(s))

\* clean with the pattern \s\s in place of \s+
clean_pairwise(s) == IF Truthy(s) THEN Strip(CollapsePairs(s)) ELSE <<>>

clean(s) == IF Truthy(s) THEN Strip(CollapseSpace(s)) ELSE <<>>

RECURSIVE StripNonWord(_)
\* re.sub(r"\W+", "", s)
StripNonWord(s) ==
    IF s = <<>> THEN <<>>
    ELSE IF IsWordChar(Head(s))
         THEN <<Head(s)>> \o StripNonWord(Tail(s))
         ELSE StripNonWord(Tail(s))

RECURSIVE Replace(_, _, _)
\* s.replace(old, new), old non-empty
Replace(s, old, new) ==
    IF s = <<>> THEN <<>>
    ELSE IF MatchAt(s, old, 1)
         THEN new \o Replace(SubSeq(s, Len(old) + 1, Len(s)), old, new)
         ELSE <<Head(s)>> \o Replace(Tail(s), old, new)

\* ------------------------------------------------------------ configuration
\* POLL_INTERVAL_MINUTES, default "3"
POLL_INTERVAL_MINUTES == 3

POLL_INTERVAL == POLL_INTERVAL_MINUTES * 60

\* the first two of the eight monitored subreddits
SUBREDDITS == <<"bangalore", "Bengaluru">>

KEYWORDS == <<
    <<"l", "o", "o", "k", "i", "n", "g", " ", "f", "o", "r">>,
    <<"l", "o", "o", "k", "i", "n", "g", " ", "t", "o", " ", "r", "e", "n", "t">>,
    <<"l", "o", "o", "k", "i", "n", "g", " ", "t", "o", " ", "b", "u", "y">>,
    <<"n", "e", "e", "d", " ", "a">>,
    <<"n", "e", "e", "d", " ", "a", "n">>,
    <<"f", "l", "a", "t", " ", "f", "o", "r", " ", "r", "e", "n", "t">>,
    <<"f", "l", "a", "t", " ", "f", "o", "r", " ", "s", "a", "l", "e">>,
    <<"h", "o", "u", "s", "e", " ", "f", "o", "r", " ", "r", "e", "n", "t">>,
    <<"h", "o", "u", "s", "e", " ", "f", "o", "r", " ", "s", "a", "l", "e">>,
    <<"w", "a", "n", "t", "e", "d">>,
    <<"s", "e", "e", "k", "i", "n", "g">>,
    <<"a", "v", "a", "i", "l", "a", "b", "l", "e", " ", "f", "o", "r", " ", "r", "e", "n", "t">> >>

HousingWords == <<
    <<"f", "l", "a", "t">>, <<"a", "p", "a", "r", "t", "m", "e", "n", "t">>,
    <<"h", "o", "u", "s", "e">>, <<"r", "e", "n", "t">>, <<"s", "a", "l", "e">>,
    <<"b", "h", "k">>, <<"s", "t", "u", "d", "i", "o">> >>

RentCues == <<
    <<"r", "e", "n", "t">>, <<"l", "o", "o", "k", "i", "n", "g", " ", "t", "o", " ", "r", "e", "n", "t">>,
    <<"f", "l", "a", "t", " ", "f", "o", "r", " ", "r", "e", "n", "t">>, <<"h", "o", "u", "s", "e", " ", "f", "o", "r", " ", "r", "e", "n", "t">> >>

SaleCues == <<
    <<"s", "a", "l", "e">>, <<"b", "u", "y">>, <<"f", "l", "a", "t", " ", "f", "o", "r", " ", "s", "a", "l", "e">>,
    <<"h", "o", "u", "s", "e", " ", "f", "o", "r", " ", "s", "a", "l", "e">>, <<"l", "o", "o", "k", "i", "n", "g", " ", "t", "o", " ", "b", "u", "y">> >>

TransactionTypes == {"Rent", "Sale", "Both", "Unknown"}

\* ------------------------------------------------------------ lead builder
\* any(k in t for k in cues)
AnyIn(t, cues) == \E i \in DOMAIN cues : Contains(t, cues[i])

\* classify_type testing is_sale and is_rent before their conjunction
classify_type_sale_first(text) ==
    LET is_rent == \E t \in {Lower(text)} : AnyIn(t, RentCues)
        is_sale == \E t \in {Lower(text)} : AnyIn(t, SaleCues)
    IN  IF is_sale THEN "Sale"
        ELSE IF is_rent THEN "Rent"
        ELSE IF is_rent /\ is_sale THEN "Both"
        ELSE "Unknown"

\* (t = text.lower() is bound once, as a value, by the quantifier)
classify_type(text) ==
    LET is_rent == \E t \in {Lower(text)} : AnyIn(t, RentCues)
        is_sale == \E t \in {Lower(text)} : AnyIn(t, SaleCues)
    IN  IF is_rent /\ is_sale THEN "Both"
        ELSE IF is_sale THEN "Sale"
        ELSE IF is_rent THEN "Rent"
        ELSE "Unknown"

\* the quick filter of process_item; both searches use re.I
IsRelevant(full) ==
    \E t \in {Lower(full)} :
        \/ AnyIn(t, KEYWORDS)
        \/ \E i \in DOMAIN HousingWords : HasWord(t, HousingWords[i])

NoLead == [ok |-> FALSE, id |-> <<>>, title |-> <<>>, text |-> <<>>, type |-> "Unknown"]

\* f"{title} {selftext}" of process_item
FullText(item) ==
    clean(Or(item.title, <<>>)) \o <<" ">> \o clean(Or(item.selftext, <<>>))

\* pid of process_item
LeadId(item, title) ==
    Or(Or(Or(item.id, item.url), item.permalink), Take(title, 20))

\* the lead of an item whose cleaned title and selftext are given; the
\* extracted budget, bhk, locality and link are left out of the record
BuildLead(item, title, selftext) ==
    [ok |-> TRUE, id |-> LeadId(item, title), title |-> title, text |-> selftext,
     type |-> classify_type(title \o <<" ">> \o selftext)]

\* process_item without its quick filter
process_item_unfiltered(item) ==
    CHOOSE l \in {BuildLead(item, title, selftext) :
                     title \in {clean(Or(item.title, <<>>))},
                     selftext \in {clean(Or(item.selftext, <<>>))}} : TRUE

\* process_item with "or" for "and" in its quick filter: a keyword and a
\* housing word are both required
process_item_both_required(item) ==
    CHOOSE l \in {IF \E t \in {Lower(title \o <<" ">> \o selftext)} :
                        ~(/\ AnyIn(t, KEYWORDS)
                          /\ \E i \in DOMAIN HousingWords : HasWord(t, HousingWords[i]))
                  THEN NoLead
                  ELSE BuildLead(item, title, selftext) :
                     title \in {clean(Or(item.title, <<>>))},
                     selftext \in {clean(Or(item.selftext, <<>>))}} : TRUE

\* an item is [id, url, title, selftext, permalink]; a missing key is None
\* (title and selftext are bound once, as values, by the set constructor)
process_item(item) ==
    CHOOSE l \in {IF ~IsRelevant(title \o <<" ">> \o selftext)
                  THEN NoLead
                  ELSE BuildLead(item, title, selftext) :
                     title \in {clean(Or(item.title, <<>>))},
                     selftext \in {clean(Or(item.selftext, <<>>))}} : TRUE

\* ---------------------------------------------------------------- ledger
\* a row of OUT_CSV, reduced to the columns id, title and type
HeaderRow == [id |-> <<"i", "d">>, title |-> <<"t", "i", "t", "l", "e">>, type |-> "type"]

LeadRow(lead) == [id |-> lead.id, title |-> lead.title, type |-> lead.type]

\* some of the strings pandas.read_csv reads as a missing value
NaValues == {<<>>, <<"N", "A">>, <<"n", "a", "n">>, <<"N", "a", "N">>, <<"n", "u", "l", "l">>,
             <<"N", "U", "L", "L">>, <<"N", "o", "n", "e">>, <<"N", "/", "A">>}

IsNa(v) == v \in NaValues

\* a cell read_csv parses as an integer
IsIntCell(v) == v # <<>> /\ \A i \in DOMAIN v : v[i] \in Digits

RECURSIVE StripZeros(_)
\* str(int(v)) for a cell of digits
StripZeros(v) == IF Len(v) > 1 /\ Head(v) = "0" THEN StripZeros(Tail(v)) ELSE v

\* df['id'].astype(str).values for the data rows: read_csv infers one dtype
\* for the column (int64 when every cell is an integer, float64 when integer
\* and missing cells mix, object otherwise) and a missing cell becomes NaN
IdColumn(rows) ==
    LET cells == {rows[i].id : i \in DOMAIN rows}
        present == {v \in cells : ~IsNa(v)}
        numeric == \A v \in present : IsIntCell(v)
        hasNa == \E v \in cells : IsNa(v)
        str(v) == IF IsNa(v) THEN <<"n", "a", "n">>
                  ELSE IF ~numeric THEN v
                  ELSE IF hasNa THEN StripZeros(v) \o <<".", "0">>
                  ELSE StripZeros(v)
    IN  {str(v) : v \in cells}

\* already_seen testing str(pid) against the id column joined into one string
already_seen_substring(file, pid, readOk) ==
    IF ~readOk \/ file = <<>> \/ file[1].id # HeaderRow.id THEN FALSE
    ELSE \E v \in IdColumn(Tail(file)) : Contains(v, pid)

\* already_seen(pid) on the file content; readOk = FALSE is pd.read_csv
\* raising, and an empty file or a first line without an id column raises too
already_seen(file, pid, readOk) ==
    IF ~readOk \/ file = <<>> \/ file[1].id # HeaderRow.id THEN FALSE
    ELSE pid \in IdColumn(Tail(file))

\* save_lead opening the file with "w"
save_lead_truncating(file, lead) == <<LeadRow(lead)>>

\* save_lead writing the new row right below the header, newest first
save_lead_newest_first(file, lead) ==
    IF file = <<>> THEN <<LeadRow(lead)>>
    ELSE <<Head(file), LeadRow(lead)>> \o Tail(file)

\* save_lead(lead): open(OUT_CSV, "a") and one writerow
save_lead(file, lead) == Append(file, LeadRow(lead))

\* ------------------------------------------------------- upstream sources
\* the clock reading at startup
T0 == 1000

\* a JSON number where a string is expected: re.sub raises TypeError on it
Num == <<"Number_">>

RedditHost == <<"h", "t", "t", "p", "s", ":", "/", "/", "w", "w", "w", ".", "r", "e", "d", "d", "i", "t", ".", "c", "o", "m">>

\* submissions the Pushshift search can return: [id, title, selftext,
\* permalink, created_utc], a key the JSON object lacks is None; created_utc
\* is <<n>>, or <<>> when the key is missing
PushshiftPosts == {
    [id |-> <<"a", "1">>, title |-> <<"R", "e", "n", "t">>, selftext |-> <<>>,
     permalink |-> <<"/", "a", "1">>, created_utc |-> <<T0 - 200>>],
    [id |-> <<"b", "2">>, title |-> <<"f", "o", "o", "d">>, selftext |-> None,
     permalink |-> None, created_utc |-> <<>>],
    [id |-> None, title |-> None, selftext |-> <<"f", "l", "a", "t">>,
     permalink |-> None, created_utc |-> <<T0 - 100>>],
    [id |-> <<"c", "3">>, title |-> Num, selftext |-> <<"r", "e", "n", "t">>,
     permalink |-> None, created_utc |-> <<T0 - 100>>] }

\* entries the feed of a subreddit can hold: [title, link, summary]
FeedEntries(subreddit) ==
    IF subreddit = "bangalore"
    THEN {[title |-> <<"r", "e", "n", "t">>, link |-> RedditHost \o <<"/", "a", "1">>, summary |-> <<>>],
          [title |-> <<"s", "a", "l", "e">>, link |-> <<"/", "a", "1">>, summary |-> None]}
    ELSE {[title |-> <<"f", "l", "a", "t">>, link |-> <<"/", "0", "7">>, summary |-> <<"b", "u", "y">>]}

\* sequences over S of length 0..n
SeqsUpTo(S, n) == UNION {[1..k -> S] : k \in 0..n}

\* what fetch_pushshift(SUBREDDITS, since_ts) can return when the request
\* succeeds: "after" keeps submissions newer than since_ts, "sort": "asc"
PushshiftResponses == SeqsUpTo(PushshiftPosts, MaxBatch)

PushshiftBatches(since_ts) ==
    {b \in PushshiftResponses :
        /\ \A i \in DOMAIN b :
              b[i].created_utc # <<>> => b[i].created_utc[1] > since_ts
        /\ \A i, j \in DOMAIN b :
              (i < j /\ b[i].created_utc # <<>> /\ b[j].created_utc # <<>>)
                  => b[i].created_utc[1] <= b[j].created_utc[1]}

\* the item fetch_rss builds from one feed entry
RssItem(entry, clock) ==
    [id |-> Last(StripNonWord(entry.link), 12),
     url |-> None,
     title |-> entry.title,
     selftext |-> IF entry.summary = None THEN <<>> ELSE entry.summary,
     permalink |-> Replace(entry.link, RedditHost, <<>>),
     created_utc |-> <<clock>>]

\* the items of every feed, built at clock 0, in the orders a feed can list them
FeedBatches ==
    [s \in Range(SUBREDDITS) |->
        SeqsUpTo({RssItem(e, 0) : e \in FeedEntries(s)}, MaxBatch)]

\* what fetch_rss(subreddit) can return when the feed parses
RssBatches(subreddit, clock) ==
    {[i \in DOMAIN b |-> [b[i] EXCEPT !.created_utc = <<clock>>]] :
        b \in FeedBatches[subreddit]}

\* the item poll_loop builds from a Pushshift submission
PushshiftItem(p) ==
    [id |-> p.id, url |-> None, title |-> p.title, selftext |-> p.selftext,
     permalink |-> p.permalink, created_utc |-> p.created_utc]

\* re.sub inside clean raises TypeError on a value that is not a string
BuildRaises(item) == item.title = Num \/ item.selftext = Num

\* ------------------------------------------------------------------ state
VARIABLES
    pc,          \* position of the process: "start", "poll", "fetch_ps",
                 \* "ps_loop", "ps_send", "fetch_rss", "rss_loop", "rss_send",
                 \* "sleep", "stopped"
    csvExists,   \* os.path.exists(OUT_CSV)
    csv,         \* the rows of OUT_CSV
    bot,         \* TRUE when the Telegram Bot object was built
    now,         \* time.time()
    last_ts,     \* the Pushshift cursor of poll_loop
    cycle,       \* number of the current pass of the while loop
    posts,       \* the batch being iterated (posts / rss_items)
    idx,         \* position of the for loop in posts
    sub,         \* position of the for loop in SUBREDDITS
    lead,        \* the lead between save_lead and send_telegram
    notified,    \* the send_telegram calls made: a bag of lead ids
    sendFailed,  \* ids whose bot.send_message raised
    errKind,     \* what the except clause caught in the pass under way, or
                 \* in the pass before until the first fetch: "none", "build"
                 \* or "write"
    fetchFailed, \* sources whose fetch failed in this pass
    attempted,   \* sources whose fetch was called in this pass
    skipped,     \* fetched items of this pass the except clause cut off
    judgedNew,   \* ids already_seen answered False for in this pass
    lostWrite,   \* created_utc of the Pushshift lead whose save_lead raised in this pass
    faults,      \* failures of the environment so far
    text,        \* the argument of a text function applied on its own
    out          \* what the text function returned

vars == <<pc, csvExists, csv, bot, now, last_ts, cycle, posts, idx, sub, lead,
          notified, sendFailed, errKind, fetchFailed, attempted, skipped, judgedNew, lostWrite,
          faults, text, out>>

hist == <<errKind, fetchFailed, attempted, skipped, judgedNew, lostWrite, faults>>

Sources == {"pushshift"} \cup Range(SUBREDDITS)

\* a ledger an earlier run of the program left behind
OldLedgers == {<<HeaderRow, [id |-> <<"0", "7">>, title |-> <<"s", "a", "l", "e">>, type |-> "Sale"]>>}

Init ==
    /\ pc = "start"
    /\ csvExists \in BOOLEAN
    /\ csv \in (IF csvExists THEN OldLedgers ELSE {<<>>})
    /\ bot \in BOOLEAN
    /\ now = T0
    /\ last_ts = 0
    /\ cycle = 1
    /\ posts = <<>>
    /\ idx = 1
    /\ sub = 1
    /\ lead = NoLead
    /\ notified = EmptyBag
    /\ sendFailed = {}
    /\ errKind = "none"
    /\ fetchFailed = {}
    /\ attempted = {}
    /\ skipped = 0
    /\ judgedNew = {}
    /\ lostWrite = {}
    /\ faults = 0
    /\ text = <<>>
    /\ out = <<>>

\* module level: "if not os.path.exists(OUT_CSV)" writes the header row
EnsureCsv ==
    /\ pc = "start"
    /\ pc' = "poll"
    /\ csvExists' = TRUE
    /\ csv' = IF csvExists THEN csv ELSE <<HeaderRow>>
    /\ UNCHANGED <<bot, text, out, now, last_ts, cycle, posts, idx, sub, lead, notified, sendFailed, hist>>

\* poll_loop up to the while loop
StartPoll ==
    /\ pc = "poll"
    /\ pc' = "fetch_ps"
    /\ last_ts' = now - 300
    /\ UNCHANGED <<csvExists, csv, bot, text, out, now, cycle, posts, idx, sub, lead, notified, sendFailed, hist>>

Failed(ok) == IF ok THEN 0 ELSE 1

\* the environment may fail a call while the run has failures left, n of
\* them being used up by the step under way
OutcomesAfter(n) == IF faults + n < MaxFaults THEN BOOLEAN ELSE {TRUE}

Outcomes == OutcomesAfter(0)

\* the while body without its except clause: the exception ends poll_loop
Uncaught(kind) ==
    /\ pc' = "stopped"
    /\ errKind' = kind
    /\ skipped' = Len(posts) - idx
    /\ UNCHANGED <<csv, idx, lead, judgedNew>>

\* the except clause of the while body: log and fall through to the sleep
Caught(kind) ==
    /\ pc' = "sleep"
    /\ errKind' = kind
    /\ skipped' = Len(posts) - idx
    /\ UNCHANGED <<csv, idx, lead, judgedNew>>

\* "continue": the next item of the batch
Continue ==
    /\ idx' = idx + 1
    /\ UNCHANGED <<pc, csv, lead, errKind, skipped, judgedNew, lostWrite>>

\* "last_ts = created" without the comparison
raise_cursor_unconditionally(cursor, created) == created

\* "if created > last_ts: last_ts = created"
raise_cursor(cursor, created) == IF created > cursor THEN created ELSE cursor

\* one pass of a for loop body up to and including save_lead; isPs tells the
\* Pushshift loop, which first raises last_ts to the submission's created_utc
Examine(loopPc, sendPc, isPs) ==
    /\ pc = loopPc
    /\ idx <= Len(posts)
    /\ LET item == posts[idx]
           created == IF item.created_utc = <<>> THEN now ELSE item.created_utc[1]
       IN  /\ last_ts' = IF isPs THEN raise_cursor(last_ts, created) ELSE last_ts
           /\ IF BuildRaises(item)
              THEN Caught("build") /\ UNCHANGED <<lostWrite, faults>>
              ELSE \E l \in {process_item(item)} :
                       IF ~l.ok
                       THEN Continue /\ UNCHANGED faults
                       ELSE \E readOk \in Outcomes :
                              IF already_seen(csv, l.id, readOk)
                              THEN Continue /\ UNCHANGED faults
                              ELSE \E writeOk \in OutcomesAfter(Failed(readOk)) :
                                     /\ faults' = faults + Failed(readOk) + Failed(writeOk)
                                     /\ IF writeOk
                                        THEN /\ csv' = save_lead(csv, l)
                                             /\ lead' = l
                                             /\ pc' = sendPc
                                             /\ judgedNew' = judgedNew \cup {l.id}
                                             /\ UNCHANGED <<idx, errKind, skipped, lostWrite>>
                                        ELSE /\ Caught("write")
                                             /\ lostWrite' = IF isPs
                                                             THEN lostWrite \cup {created}
                                                             ELSE lostWrite
    /\ UNCHANGED <<csvExists, bot, text, out, now, cycle, posts, sub, notified, sendFailed, fetchFailed, attempted>>

\* the outcomes of send_telegram(lead): no bot, message sent, send raised
\* (and was caught inside send_telegram)
SendResults ==
    IF ~bot THEN {"skipped"}
    ELSE IF faults < MaxFaults THEN {"ok", "fail"}
    ELSE {"ok"}

\* send_telegram(lead) and the logging.info line that ends the loop body
Send(sendPc, loopPc) ==
    /\ pc = sendPc
    /\ \E r \in SendResults :
          /\ sendFailed' = IF r = "fail" THEN sendFailed \cup {lead.id} ELSE sendFailed
          /\ faults' = IF r = "fail" THEN faults + 1 ELSE faults
    /\ notified' = notified (+) SetToBag({lead.id})
    /\ pc' = loopPc
    /\ idx' = idx + 1
    /\ lead' = NoLead
    /\ UNCHANGED <<csvExists, csv, bot, text, out, now, last_ts, cycle, posts, sub, errKind,
                   fetchFailed, attempted, skipped, judgedNew, lostWrite>>

\* posts = fetch_pushshift(SUBREDDITS, last_ts); a failed request gives []
FetchPushshift ==
    /\ pc = "fetch_ps"
    /\ \E ok \in Outcomes :
          /\ posts' \in (IF ok
                         THEN {[i \in DOMAIN b |-> PushshiftItem(b[i])] :
                                  b \in PushshiftBatches(last_ts)}
                         ELSE {<<>>})
          /\ fetchFailed' = IF ok THEN fetchFailed ELSE fetchFailed \cup {"pushshift"}
          /\ faults' = IF ok THEN faults ELSE faults + 1
    /\ attempted' = attempted \cup {"pushshift"}
    /\ idx' = 1
    /\ pc' = "ps_loop"
    /\ errKind' = "none"
    /\ UNCHANGED <<csvExists, csv, bot, text, out, now, last_ts, cycle, sub, lead, notified, sendFailed,
                   skipped, judgedNew, lostWrite>>

PsItem == Examine("ps_loop", "ps_send", TRUE)

PsSend == Send("ps_send", "ps_loop")

\* the Pushshift for loop is exhausted: on to "for sub in SUBREDDITS"
PsDone ==
    /\ pc = "ps_loop"
    /\ idx > Len(posts)
    /\ pc' = "fetch_rss"
    /\ sub' = 1
    /\ UNCHANGED <<csvExists, csv, bot, text, out, now, last_ts, cycle, posts, idx, lead, notified, sendFailed, hist>>

\* fetch_rss without its except clause: the exception reaches the except
\* clause of the while body
FetchRssUnguarded ==
    /\ pc = "fetch_rss"
    /\ sub <= Len(SUBREDDITS)
    /\ \E ok \in Outcomes :
          /\ posts' \in (IF ok THEN RssBatches(SUBREDDITS[sub], now) ELSE {<<>>})
          /\ fetchFailed' = IF ok THEN fetchFailed ELSE fetchFailed \cup {SUBREDDITS[sub]}
          /\ faults' = IF ok THEN faults ELSE faults + 1
          /\ pc' = IF ok THEN "rss_loop" ELSE "sleep"
          /\ errKind' = IF ok THEN errKind ELSE "fetch"
    /\ attempted' = attempted \cup {SUBREDDITS[sub]}
    /\ idx' = 1
    /\ UNCHANGED <<csvExists, csv, bot, text, out, now, last_ts, cycle, sub, lead, notified, sendFailed,
                   skipped, judgedNew, lostWrite>>

\* rss_items = fetch_rss(sub); a failed parse gives []
FetchRss ==
    /\ pc = "fetch_rss"
    /\ sub <= Len(SUBREDDITS)
    /\ \E ok \in Outcomes :
          /\ posts' \in (IF ok THEN RssBatches(SUBREDDITS[sub], now) ELSE {<<>>})
          /\ fetchFailed' = IF ok THEN fetchFailed ELSE fetchFailed \cup {SUBREDDITS[sub]}
          /\ faults' = IF ok THEN faults ELSE faults + 1
    /\ attempted' = attempted \cup {SUBREDDITS[sub]}
    /\ idx' = 1
    /\ pc' = "rss_loop"
    /\ UNCHANGED <<csvExists, csv, bot, text, out, now, last_ts, cycle, sub, lead, notified, sendFailed,
                   errKind, skipped, judgedNew, lostWrite>>

RssItemStep == Examine("rss_loop", "rss_send", FALSE)

RssSend == Send("rss_send", "rss_loop")

\* the feed's for loop is exhausted: the next subreddit
RssDone ==
    /\ pc = "rss_loop"
    /\ idx > Len(posts)
    /\ pc' = "fetch_rss"
    /\ sub' = sub + 1
    /\ UNCHANGED <<csvExists, csv, bot, text, out, now, last_ts, cycle, posts, idx, lead, notified, sendFailed, hist>>

\* "for sub in SUBREDDITS" is exhausted: the try block ends
CycleDone ==
    /\ pc = "fetch_rss"
    /\ sub > Len(SUBREDDITS)
    /\ pc' = "sleep"
    /\ UNCHANGED <<csvExists, csv, bot, text, out, now, last_ts, cycle, posts, idx, sub, lead,
                   notified, sendFailed, hist>>

\* time.sleep(POLL_INTERVAL), outside the try block, then the next pass;
\* time.sleep raises ValueError on a negative length
Sleep ==
    /\ pc = "sleep"
    /\ cycle < MaxCycles
    /\ IF POLL_INTERVAL < 0
       THEN /\ pc' = "stopped"
            /\ UNCHANGED <<now, cycle, posts, idx, sub, errKind, fetchFailed,
                           attempted, skipped, judgedNew, lostWrite>>
       ELSE /\ pc' = "fetch_ps"
            /\ now' = now + POLL_INTERVAL
            /\ cycle' = cycle + 1
            /\ posts' = <<>>
            /\ idx' = 1
            /\ sub' = 1
            /\ fetchFailed' = {}
            /\ attempted' = {}
            /\ skipped' = 0
            /\ judgedNew' = {}
            /\ lostWrite' = {}
            /\ UNCHANGED errKind
    /\ UNCHANGED <<csvExists, csv, bot, text, out, last_ts, lead, notified, sendFailed, faults>>

Next ==
    \/ EnsureCsv
    \/ StartPoll
    \/ FetchPushshift
    \/ PsItem
    \/ PsSend
    \/ PsDone
    \/ FetchRss
    \/ RssItemStep
    \/ RssSend
    \/ RssDone
    \/ CycleDone
    \/ Sleep

Spec == Init /\ [][Next]_vars

\* the interpreter runs the single thread whenever it can take a step
FairSpec == Spec /\ WF_vars(Next)

\* the steps the code itself bounds: requests.get carries timeout=15, so
\* fetch_pushshift returns even when Pushshift never responds, and every other
\* step is local; feedparser.parse(url) is called without a timeout, so the
\* return of fetch_rss is left to the feed's server
Returning ==
    \/ EnsureCsv
    \/ StartPoll
    \/ FetchPushshift
    \/ PsItem
    \/ PsSend
    \/ PsDone
    \/ RssItemStep
    \/ RssSend
    \/ RssDone
    \/ CycleDone
    \/ Sleep

\* the program facing sources that may never respond
TimeoutSpec == Spec /\ WF_vars(Returning)

\* --------------------------------------------- the text functions on their own
MaxWords == 3
MaxText == 5

\* "Looking for 2BHK, budget 25k, near Indiranagar"
LookingText ==
    <<"L", "o", "o", "k", "i", "n", "g", " ", "f", "o", "r", " ", "2", "B", "H", "K", ",", " ",
      "b", "u", "d", "g", "e", "t", " ", "2", "5", "k", ",", " ", "n", "e", "a", "r", " ", "I",
      "n", "d", "i", "r", "a", "n", "a", "g", "a", "r">>

\* "Want to sell my flat, 3 BHK, Whitefield, price 85 lakh"
SellText ==
    <<"W", "a", "n", "t", " ", "t", "o", " ", "s", "e", "l", "l", " ", "m", "y", " ", "f", "l",
      "a", "t", ",", " ", "3", " ", "B", "H", "K", ",", " ", "W", "h", "i", "t", "e", "f", "i",
      "e", "l", "d", ",", " ", "p", "r", "i", "c", "e", " ", "8", "5", " ", "l", "a", "k", "h">>

Words == {<<"R", "e", "n", "t">>, <<"b", "u", "y">>, <<"S", "A", "L", "E">>,
          <<"f", "l", "a", "t">>, <<"p", "a", "r", "e", "n", "t">>, <<"h", "i">>}

RECURSIVE Join(_)
\* " ".join(ws)
Join(ws) ==
    IF ws = <<>> THEN <<>>
    ELSE IF Len(ws) = 1 THEN ws[1]
    ELSE ws[1] \o <<" ">> \o Join(Tail(ws))

\* texts of up to MaxWords words
Phrases == {Join(ws) : ws \in SeqsUpTo(Words, MaxWords)}

\* texts of up to MaxText characters over a letter, a space, a tab and a newline
Blanks == SeqsUpTo({"a", " ", "\t", "\n"}, MaxText)

\* the arguments classify_type, clean and process_item are applied to
Texts == {None, LookingText, SellText} \cup Phrases \cup Blanks

\* the variables of the poll loop
prog == <<csvExists, csv, bot, now, last_ts, cycle, posts, idx, sub, notified, sendFailed,
          errKind, fetchFailed, attempted, skipped, judgedNew, lostWrite, faults>>

TextInit ==
    /\ pc = "text"
    /\ text \in Texts
    /\ out = <<>>
    /\ lead = NoLead
    /\ csvExists = FALSE
    /\ csv = <<>>
    /\ bot = FALSE
    /\ now = T0
    /\ last_ts = 0
    /\ cycle = 1
    /\ posts = <<>>
    /\ idx = 1
    /\ sub = 1
    /\ notified = EmptyBag
    /\ sendFailed = {}
    /\ errKind = "none"
    /\ fetchFailed = {}
    /\ attempted = {}
    /\ skipped = 0
    /\ judgedNew = {}
    /\ lostWrite = {}
    /\ faults = 0

\* out = classify_type(text)
Classify ==
    /\ pc = "text"
    /\ text # None
    /\ out' = classify_type(text)
    /\ pc' = "classified"
    /\ UNCHANGED <<text, lead, prog>>

\* lead = process_item(item) for a submission whose title is the text
TextItem(t) ==
    [id |-> <<"t", "1">>, url |-> None, title |-> t, selftext |-> None,
     permalink |-> None, created_utc |-> <<T0>>]

Build ==
    /\ pc = "text"
    /\ lead' = process_item(TextItem(text))
    /\ pc' = "built"
    /\ UNCHANGED <<text, out, prog>>

\* clean(text), kept as the first element of out
Normalize ==
    /\ pc = "text"
    /\ out' = <<clean(text)>>
    /\ pc' = "cleaned"
    /\ UNCHANGED <<text, lead, prog>>

\* clean applied to what clean returned, kept as the second element of out
Renormalize ==
    /\ pc = "cleaned"
    /\ out' = Append(out, clean(out[1]))
    /\ pc' = "recleaned"
    /\ UNCHANGED <<text, lead, prog>>

TextNext ==
    \/ Classify
    \/ Build
    \/ Normalize
    \/ Renormalize

TextSpec == TextInit /\ [][TextNext]_vars

\* ------------------------------------------------------------ properties
\* the id cells of the data rows of the ledger
LedgerIds == {csv[i].id : i \in 2..Len(csv)}

\* how many data rows carry the id
Appended(id) == Cardinality({i \in 2..Len(csv) : csv[i].id = id})

Examining == pc \in {"ps_loop", "rss_loop"} /\ idx <= Len(posts)

\* C1: every lead id is appended to the ledger at most once and notified at
\* most once, whatever batches the poll cycles fetch
C1_AtMostOnce ==
    /\ \A id \in LedgerIds : Appended(id) <= 1
    /\ \A id \in BagToSet(notified) : CopiesIn(id, notified) <= 1

\* C2: once save_lead has appended a lead in this pass, already_seen answers
\* True for its id on every later read of the ledger
C2_ReadYourWrites == \A id \in judgedNew : already_seen(csv, id, TRUE)

\* C3: a source whose fetch fails contributes no item, every other source is
\* still fetched in the same pass, and every lead of theirs that was judged
\* new is in the ledger and was handed to send_telegram when the pass ends
C3_FetchFailureIsolated ==
    /\ (pc = "ps_loop" /\ "pushshift" \in fetchFailed) => posts = <<>>
    /\ (pc = "rss_loop" /\ SUBREDDITS[sub] \in fetchFailed) => posts = <<>>
    /\ (pc = "sleep" /\ fetchFailed # {} /\ errKind \notin {"build", "write"}) =>
          /\ attempted = Sources
          /\ skipped = 0
          /\ \A id \in judgedNew : id \in LedgerIds /\ BagIn(id, notified)

C3_Witness ==
    /\ pc = "sleep"
    /\ bot
    /\ fetchFailed # {}
    /\ errKind = "none"
    /\ judgedNew # {}

C5_NoRetry ==
    [][\A id \in sendFailed :
          /\ id \in LedgerIds
          /\ CopiesIn(id, notified') = CopiesIn(id, notified)]_vars

\* C6: a pass in which save_lead raised for one lead still examines every
\* other item it fetched and still fetches every source
C6_WriteFailureLosesOneLead ==
    (pc = "sleep" /\ errKind = "write") => (skipped = 0 /\ attempted = Sources)

\* C7: after save_lead raised for a Pushshift lead the cursor last_ts is still
\* below the lead's created_utc, so the next search can return it again
C7_CursorBehindLostLead == \A created \in lostWrite : last_ts < created

\* C8: the ledger only grows at its end, the file never disappears, and the
\* header row is written only when the file is absent
C8_AppendOnly ==
    [][/\ csvExists => csvExists'
       /\ Len(csv) <= Len(csv') /\ SubSeq(csv', 1, Len(csv)) = csv
       /\ (csv' # csv /\ csv'[Len(csv')] = HeaderRow) => ~csvExists]_vars

C8_Witness ==
    /\ Len(csv) >= 3
    /\ csv[1] = HeaderRow
    /\ csv[2] \in {l[2] : l \in OldLedgers}

\* C9: every lead process_item returns has a non-empty id and one of the four
\* transaction types
C9_LeadIdNonEmpty ==
    lead.ok => (lead.id # <<>> /\ lead.type \in TransactionTypes)

\* C10: examining an item the quick filter rejects leaves the ledger and the
\* notifications as they are and moves on to the next item
C10_IrrelevantIsNoOp ==
    [][(/\ Examining
        /\ ~BuildRaises(posts[idx])
        /\ ~IsRelevant(FullText(posts[idx])))
          => (/\ process_item(posts[idx]) = NoLead
              /\ csv' = csv
              /\ notified' = notified
              /\ lead' = lead
              /\ pc' = pc
              /\ idx' = idx + 1)]_vars

C10_Witness ==
    /\ pc = "ps_loop"
    /\ idx = 2
    /\ ~BuildRaises(posts[1])
    /\ ~IsRelevant(FullText(posts[1]))
    /\ Len(csv) >= 2
\* C11: every upstream fetch bounds its wait: whether or not a source ever
\* responds, a pass that called a fetch moves on and reaches the sleep step
C11_FetchesBoundWait == (pc \in {"fetch_ps", "fetch_rss"}) ~> (pc = "sleep")

\* C12: classify_type returns Rent on "Looking for 2BHK, budget 25k, near
\* Indiranagar"
C12_LookingIsRent == (pc = "classified" /\ text = LookingText) => out = "Rent"

\* C13: the lead built from "Want to sell my flat, 3 BHK, Whitefield, price 85
\* lakh" has the transaction type Sale
C13_SellIsSale == (pc = "built" /\ text = SellText) => (lead.ok /\ lead.type = "Sale")

\* C14: clean is idempotent: clean(clean(s)) = clean(s) for every text s, for
\* an absent s and for an s made of spaces, tabs and newlines
C14_CleanIdempotent == pc = "recleaned" => out[2] = out[1]

C14_Witness ==
    /\ pc = "recleaned"
    /\ text = <<"\n", "a", "\t", " ", "a">>
    /\ out = << <<"a", " ", "a">>, <<"a", " ", "a">> >>

\* C15: the leads of a pass are committed in fetch order and each lead's row is
\* appended before send_telegram is called for it: a row is only ever appended
\* for the item under the loop, send_telegram is only ever called for the lead
\* of the last row, the loop only moves forward in its batch, and every notified
\* id has a ledger row in every reachable state
C15_CommitOrder ==
    /\ [](\A id \in BagToSet(notified) : id \in LedgerIds)
    /\ [][/\ (csv' # csv /\ pc # "start") =>
               /\ Examining
               /\ csv' = Append(csv, LeadRow(process_item(posts[idx])))
               /\ lead' = process_item(posts[idx])
               /\ pc' = (IF pc = "ps_loop" THEN "ps_send" ELSE "rss_send")
               /\ notified' = notified
               /\ idx' = idx
          /\ (notified' # notified) =>
               /\ pc \in {"ps_send", "rss_send"}
               /\ lead.ok
               /\ csv[Len(csv)] = LeadRow(lead)
               /\ notified' = notified (+) SetToBag({lead.id})
               /\ csv' = csv
               /\ idx' = idx + 1
          /\ (/\ pc \in {"ps_loop", "ps_send", "rss_loop", "rss_send"}
              /\ pc' \in {"ps_loop", "ps_send", "rss_loop", "rss_send"}) =>
               /\ posts' = posts
               /\ idx' >= idx]_vars

C15_Witness ==
    /\ pc = "ps_loop"
    /\ idx = 3
    /\ Len(csv) >= 3
    /\ csv[Len(csv) - 1].id = posts[1].id
    /\ csv[Len(csv)].id = <<>>
    /\ posts[1].id = <<"a", "1">>
    /\ posts[2].id = None
    /\ BagIn(<<"a", "1">>, notified)
    /\ BagIn(<<>>, notified)

\* the ids under which the sources can deliver the post of a permalink
SamePostIds(permalink) ==
    {p.id : p \in {q \in PushshiftPosts : q.permalink = permalink}}
        \cup {ri.id : ri \in {r \in {RssItem(e, 0) : e \in UNION {FeedEntries(s) : s \in Range(SUBREDDITS)}} :
                                  r.permalink = permalink}}

\* the post under the loop is in the ledger under another id and not under its own
ArrivesUnderOtherId ==
    /\ pc \in {"ps_loop", "ps_send", "rss_loop", "rss_send"}
    /\ idx <= Len(posts)
    /\ ~BuildRaises(posts[idx])
    /\ \E l \in {process_item(posts[idx])} :
          /\ l.ok
          /\ \E other \in SamePostIds(posts[idx].permalink) :
                /\ other # l.id
                /\ other \in LedgerIds
                /\ BagIn(other, notified)
                /\ IF pc \in {"ps_loop", "rss_loop"}
                   THEN l.id \notin LedgerIds
                   ELSE Appended(l.id) = 1 /\ ~BagIn(l.id, notified)

\* C16: deduplication is keyed by id alone: a post that is in the ledger under
\* the id of one source and arrives from another source under a different id
\* is appended again and notified again (when neither the read nor the write
\* of the ledger fails), whatever its title and body
C16_DedupByIdAlone ==
    [][ArrivesUnderOtherId =>
          IF pc \in {"ps_loop", "rss_loop"}
          THEN faults' = faults =>
                  /\ csv' = Append(csv, LeadRow(process_item(posts[idx])))
                  /\ pc' \in {"ps_send", "rss_send"}
                  /\ ArrivesUnderOtherId'
          ELSE /\ csv' = csv
               /\ notified' = notified (+) SetToBag({lead.id})
               /\ \E other \in SamePostIds(posts[idx].permalink) :
                     /\ other # lead.id
                     /\ {other, lead.id} \subseteq LedgerIds
                     /\ BagIn(other, notified')]_vars

C16_Witness ==
    /\ pc = "rss_loop"
    /\ sub = 1
    /\ idx > 1
    /\ {<<"a", "1">>, <<"w", "r", "e", "d", "d", "i", "t", "c", "o", "m", "a", "1">>} \subseteq LedgerIds
    /\ BagIn(<<"a", "1">>, notified)
    /\ BagIn(<<"w", "r", "e", "d", "d", "i", "t", "c", "o", "m", "a", "1">>, notified)
    /\ posts[idx - 1].permalink = <<"/", "a", "1">>
    /\ \E i, j \in 2..Len(csv) :
          /\ i < j
          /\ csv[i] = [id |-> <<"a", "1">>, title |-> <<"R", "e", "n", "t">>, type |-> "Rent"]
          /\ csv[j].id = <<"w", "r", "e", "d", "d", "i", "t", "c", "o", "m", "a", "1">>

\* a rent cue: every entry of the rent list holds "rent"
RentCue(t) == Contains(Lower(t), <<"r", "e", "n", "t">>)

\* a sale cue: every entry of the sale list holds "sale" or "buy"
SaleCue(t) == Contains(Lower(t), <<"s", "a", "l", "e">>) \/ Contains(Lower(t), <<"b", "u", "y">>)

\* C17: classify_type is the 2x2 truth table of the rent cue and the sale cue,
\* each detected on its own: both give Both, sale alone Sale, rent alone Rent,
\* neither Unknown, and the result is always one of the four types
C17_TruthTable ==
    pc = "classified" =>
        /\ out \in TransactionTypes
        /\ (RentCue(text) /\ SaleCue(text)) => out = "Both"
        /\ (~RentCue(text) /\ SaleCue(text)) => out = "Sale"
        /\ (RentCue(text) /\ ~SaleCue(text)) => out = "Rent"
        /\ (~RentCue(text) /\ ~SaleCue(text)) => out = "Unknown"

C17_Witness ==
    /\ pc = "classified"
    /\ text = <<"p", "a", "r", "e", "n", "t", " ", "S", "A", "L", "E">>
    /\ out = "Both"

\* created of the Pushshift loop: p.get("created_utc", int(time.time()))
CreatedOf(item) == IF item.created_utc = <<>> THEN now ELSE item.created_utc[1]

\* C18: the cursor last_ts never decreases; the Pushshift loop raises it to the
\* created_utc of the item under the loop whatever becomes of the item (build
\* error, not relevant, already seen, write failure, commit), and no step of
\* the RSS phase, of the sleep or of the except clause changes it
C18_CursorMonotonic ==
    [][/\ last_ts' >= last_ts
       /\ (pc = "ps_loop" /\ idx <= Len(posts)) =>
             /\ last_ts' >= CreatedOf(posts[idx])
             /\ last_ts' \in {last_ts, CreatedOf(posts[idx])}
       /\ (pc \in {"ps_send", "fetch_rss", "rss_loop", "rss_send", "sleep"}
             \/ (pc = "ps_loop" /\ idx > Len(posts))) =>
             last_ts' = last_ts]_vars

C18_Witness ==
    /\ pc = "sleep"
    /\ errKind = "write"
    /\ cycle = 1
    /\ lostWrite = {T0 - 100}
    /\ last_ts = T0 - 100

\* the item under the loop is relevant and its id is not in the ledger
RelevantAndNew ==
    /\ Examining
    /\ ~BuildRaises(posts[idx])
    /\ IsRelevant(FullText(posts[idx]))
    /\ LeadId(posts[idx], clean(Or(posts[idx].title, <<>>))) \notin LedgerIds

====
